---- MODULE Spec2Model ----
(***************************************************************************)
(* Forecast/Actual log engine of nws-forecast-logger.                      *)
(*                                                                         *)
(* The state is the content of the two CSV files (nws_forecast_log.csv,    *)
(* accuweather_log.csv) and the local clock.  Every operation of           *)
(* nws_auto_logger.py and accuweather_logger.py is a function from the     *)
(* files, the clock and the upstream response to the new file content.     *)
(*                                                                         *)
(* Encoding of cells.  A CSV cell is text; the model keeps                 *)
(*   - a date cell as the day number (NoVal for the empty string),         *)
(*   - a "YYYY-MM-DD HH:MM:SS" cell as day*1440 + minute of the day, whose *)
(*     numeric order is the lexicographic order of the fixed-width text,   *)
(*   - predicted_high / actual_high as the integer whose decimal text is   *)
(*     stored (NoVal for the empty string),                                *)
(*   - high_time as <<hh, mm, ap>>, the numbers and the AM/PM suffix of    *)
(*     the text "hh:mm ap" that _normalize_cli_time produced (ap = "" when *)
(*     the bulletin gave none), NoTime for the empty string,               *)
(*   - bias_corrected_prediction as the number of tenths printed by        *)
(*     f"{x:.1f}" (NoVal for the empty string).                            *)
(* Floating point means are kept as exact fractions <<num, den>>.          *)
(***************************************************************************)
EXTENDS Integers, Sequences, FiniteSets, TLC

\* ------------------------------------------------------------------------
\* Bounds of the model
\* ------------------------------------------------------------------------
MaxDay == 2
MaxRows == 4
MaxAccu == 2
MaxLines == 4

\* Upstream responses.  NoVal stands for "no usable response" (fetch error,
\* no daytime period, bulletin section that parses to None).
NoVal == -1
Temps == {30, 32}
AccuTemps == {34}
NoTime == <<>>
Bulletins == {<<33, <<1, 0, "PM">>>>, <<35, <<9, 0, "AM">>>>, <<33, <<25, 0, "">>>>}
SlotMin == <<540, 1080>>

\* ------------------------------------------------------------------------
\* Program constants
\* ------------------------------------------------------------------------
EveningHour == 18
MorningEndHour == 12
MinutesPerDay == 1440

BASE_HEADER ==
  <<"timestamp", "target_date", "forecast_or_actual", "forecast_time",
    "predicted_high", "forecast_detail", "cli_date", "actual_high", "high_time">>
BCP_FIELD == "bias_corrected_prediction"
ACCU_HEADER == BASE_HEADER \o <<BCP_FIELD, "source">>

VARIABLES now, primary, accu, recorded, cli_body, cli_pc, parsed, normalized, capture
cliVars == <<cli_body, cli_pc, parsed, normalized>>
vars == <<now, primary, accu, recorded, cli_body, cli_pc, parsed, normalized, capture>>

\* ------------------------------------------------------------------------
\* Clock
\* ------------------------------------------------------------------------
stamp(t) == t.day * MinutesPerDay + t.min
hour(t) == t.min \div 60
today_nyc(t) == t.day
iso_date_of_stamp(ts) == ts \div MinutesPerDay

\* ------------------------------------------------------------------------
\* CSV helpers
\* ------------------------------------------------------------------------
Has(fns, f) == \E i \in 1..Len(fns) : fns[i] = f

\* csv.DictWriter / the comprehension of _append_row: a column that is not in
\* the header is not stored, and reads back as empty.
SafeRow(row, fns) ==
  [ts     |-> IF Has(fns, "timestamp") THEN row.ts ELSE NoVal,
   td     |-> IF Has(fns, "target_date") THEN row.td ELSE NoVal,
   kind   |-> IF Has(fns, "forecast_or_actual") THEN row.kind ELSE "",
   ft     |-> IF Has(fns, "forecast_time") THEN row.ft ELSE NoVal,
   ph     |-> IF Has(fns, "predicted_high") THEN row.ph ELSE NoVal,
   detail |-> IF Has(fns, "forecast_detail") THEN row.detail ELSE "",
   cd     |-> IF Has(fns, "cli_date") THEN row.cd ELSE NoVal,
   ah     |-> IF Has(fns, "actual_high") THEN row.ah ELSE NoVal,
   ht     |-> IF Has(fns, "high_time") THEN row.ht ELSE NoTime,
   bcp    |-> IF Has(fns, BCP_FIELD) THEN row.bcp ELSE NoVal,
   src    |-> IF Has(fns, "source") THEN row.src ELSE ""]

RECURSIVE AddMissing(_, _)
AddMissing(fieldnames, hdr) ==
  IF hdr = <<>> THEN fieldnames
  ELSE AddMissing(IF Has(fieldnames, Head(hdr)) THEN fieldnames
                  ELSE Append(fieldnames, Head(hdr)),
                  Tail(hdr))

\* _read_all_rows: the rows of the primary file followed by the rows of
\* accuweather_log.csv; fieldnames start as BASE_HEADER + [BCP_FIELD].
read_all_rows(P, A) ==
  [rows |-> P.rows \o A,
   fns  |-> AddMissing(AddMissing(BASE_HEADER \o <<BCP_FIELD>>, P.fns), ACCU_HEADER)]

\* _write_all_rows: the primary file becomes header + rows.
write_all_rows(rows, fieldnames) ==
  [fns |-> fieldnames,
   rows |-> [i \in 1..Len(rows) |-> SafeRow(rows[i], fieldnames)]]

\* nws_forecast_log.csv does not exist
Absent == [fns |-> <<>>, rows |-> <<>>]

\* ensure_csv_header: a missing file is created with the canonical header
ensure_csv_header(P) ==
  IF P = Absent THEN [fns |-> BASE_HEADER \o <<BCP_FIELD>>, rows |-> <<>>] ELSE P

append_row_unfiltered_mut(P, row) ==
  [fns |-> ensure_csv_header(P).fns, rows |-> Append(ensure_csv_header(P).rows, row)]

\* _append_row: one row under the file's current header.
append_row(P, row) ==
  LET F == ensure_csv_header(P)
  IN [fns |-> F.fns, rows |-> Append(F.rows, SafeRow(row, F.fns))]

\* _upgrade_header_to_include_bcp, given what _read_all_rows returned: the
\* file is rewritten only when BCP_FIELD is missing from fieldnames.
upgrade_header_to_include_bcp(P, rows, fieldnames) ==
  IF Has(fieldnames, BCP_FIELD) THEN [file |-> P, fns |-> fieldnames]
  ELSE [file |-> write_all_rows(rows, Append(fieldnames, BCP_FIELD)),
        fns |-> Append(fieldnames, BCP_FIELD)]

ForecastRow(t, target, val, bcpv, source) ==
  [ts |-> stamp(t), td |-> target, kind |-> "forecast", ft |-> stamp(t),
   ph |-> val, detail |-> "txt", cd |-> NoVal, ah |-> NoVal, ht |-> NoTime,
   bcp |-> bcpv, src |-> source]

ActualRow(ts, d, temp, time_clean) ==
  [ts |-> ts, td |-> d, kind |-> "actual", ft |-> NoVal, ph |-> NoVal,
   detail |-> "", cd |-> d, ah |-> temp, ht |-> time_clean,
   bcp |-> NoVal, src |-> ""]

\* ------------------------------------------------------------------------
\* Forecast helpers
\* ------------------------------------------------------------------------
IsForecastFor(r, d) == r.kind = "forecast" /\ r.td = d
IsActualFor(r, d) == r.kind = "actual" /\ r.cd = d

\* _get_last_forecast_row_for_date: index of the last forecast row of the
\* primary file for the date, 0 when there is none.
get_last_forecast_row_for_date(P, d) ==
  LET S == {i \in 1..Len(P.rows) : IsForecastFor(P.rows[i], d)}
  IN IF S = {} THEN 0 ELSE CHOOSE i \in S : \A j \in S : j <= i

forecast_changed_mut(P, d, new_value) == TRUE

forecast_changed_since_last(P, d, new_value) ==
  LET last == get_last_forecast_row_for_date(P, d)
  IN IF last = 0 THEN TRUE ELSE P.rows[last].ph # new_value

actual_exists_mut(P, d) == FALSE

actual_exists_for_date(P, d) ==
  \E i \in 1..Len(P.rows) : IsActualFor(P.rows[i], d)

\* ------------------------------------------------------------------------
\* Bias helpers.  A fraction is <<num, den>> with den > 0; None is <<0, 0>>.
\* ------------------------------------------------------------------------
None == <<0, 0>>
IsNone(q) == q[2] = 0
Frac(n, d) == <<n, d>>
FracAdd(a, b) == <<a[1] * b[2] + b[1] * a[2], a[2] * b[2]>>
FracSub(a, b) == <<a[1] * b[2] - b[1] * a[2], a[2] * b[2]>>

\* f"{x:.1f}": the nearest tenth; an exact tie (x.25, x.75, ...) goes to the
\* even tenth, as the correctly rounded conversion of a representable value.
Fmt1(q) ==
  LET n == 10 * q[1]
      t == n \div q[2]
      rem == n - t * q[2]
  IN IF 2 * rem < q[2] THEN t
     ELSE IF 2 * rem > q[2] THEN t + 1
     ELSE IF t % 2 = 0 THEN t ELSE t + 1

\* _float_or_none on a numeric cell
float_or_none(x) == IF x = NoVal THEN None ELSE Frac(x, 1)

\* _minutes_from_hhmm_ampm on a high_time cell: minutes since midnight, or
\* NoVal (None) when the cell is empty or the hour / minute is out of range
minutes_from_hhmm_ampm(s) ==
  IF s = NoTime THEN NoVal
  ELSE LET hh == IF s[3] = "" THEN s[1]
                 ELSE (s[1] % 12) + (IF s[3] = "PM" THEN 12 ELSE 0)
           mm == s[2]
       IN IF 0 <= hh /\ hh <= 23 /\ 0 <= mm /\ mm <= 59 THEN hh * 60 + mm ELSE NoVal

\* _minutes_from_forecast_time_cell: the HH:MM part of the cell only
minutes_from_forecast_time_cell(ft) ==
  IF ft = NoVal THEN NoVal ELSE ft % MinutesPerDay

RECURSIVE SumSeq(_)
SumSeq(s) == IF s = <<>> THEN 0 ELSE Head(s) + SumSeq(Tail(s))

MeanOf(vals) == IF vals = <<>> THEN None ELSE Frac(SumSeq(vals), Len(vals))

\* d = cli_date of an actual row, target_date of any other row
GroupDate(r) == IF r.kind = "actual" THEN r.cd ELSE r.td

RowsOfDate(rows, d) == SelectSeq(rows, LAMBDA r : GroupDate(r) = d)

\* next(x for x in rs if actual and actual_high is a number): index or 0
FirstActual(rs) ==
  LET S == {i \in 1..Len(rs) : rs[i].kind = "actual" /\ ~IsNone(float_or_none(rs[i].ah))}
  IN IF S = {} THEN 0 ELSE CHOOSE i \in S : \A j \in S : i <= j

\* the inner loop shared by the three bias functions: predicted_high of the
\* forecast rows of rs at or before the high time (all of them when the
\* high time does not parse)
PreHighKept(x, high_min) ==
  /\ x.kind = "forecast"
  /\ ~IsNone(float_or_none(x.ph))
  /\ \/ high_min = NoVal
     \/ LET fc_min == minutes_from_forecast_time_cell(x.ft)
        IN fc_min # NoVal /\ ~(fc_min > high_min)

RECURSIVE PhOf(_)
PhOf(rs) == IF rs = <<>> THEN <<>> ELSE <<Head(rs).ph>> \o PhOf(Tail(rs))

fc_vals(rs, act) ==
  LET high_min == IF act.ht # NoTime THEN minutes_from_hhmm_ampm(act.ht) ELSE NoVal
  IN PhOf(SelectSeq(rs, LAMBDA x : PreHighKept(x, high_min)))

\* bias of one date group: actual_high - mean(pre-high forecasts), or None
DailyBias(rs) ==
  LET a == FirstActual(rs)
  IN IF a = 0 THEN None
     ELSE LET vals == fc_vals(rs, rs[a])
          IN IF vals = <<>> THEN None
             ELSE FracSub(Frac(rs[a].ah, 1), MeanOf(vals))

DatesOf(rows) == {GroupDate(rows[i]) : i \in 1..Len(rows)} \ {NoVal}

RECURSIVE SumFracs(_, _)
SumFracs(rows, ds) ==
  IF ds = {} THEN Frac(0, 1)
  ELSE LET d == CHOOSE x \in ds : TRUE
       IN FracAdd(DailyBias(RowsOfDate(rows, d)), SumFracs(rows, ds \ {d}))

MeanBias(rows, ds) ==
  LET done == {d \in ds : ~IsNone(DailyBias(RowsOfDate(rows, d)))}
      s == SumFracs(rows, done)
  IN IF done = {} THEN None ELSE Frac(s[1], s[2] * Cardinality(done))

\* _compute_avg_bias_excluding(rows, exclude_date_iso); '' is NoVal
compute_avg_bias_excluding(rows, exclude_date) ==
  MeanBias(rows, {d \in DatesOf(rows) : ~(exclude_date # NoVal /\ d = exclude_date)})

\* _compute_today_pre_high_mean(rows, today_iso)
compute_today_pre_high_mean(rows, today_iso) ==
  LET rs == SelectSeq(rows, LAMBDA r : IsForecastFor(r, today_iso) \/ IsActualFor(r, today_iso))
      a == FirstActual(rs)
  IN IF a = 0 THEN None ELSE MeanOf(fc_vals(rs, rs[a]))

today_mean_without_actual_mut(rows, today_iso) ==
  <<MeanBias(rows, DatesOf(rows)),
    MeanOf(PhOf(SelectSeq(rows, LAMBDA r : IsForecastFor(r, today_iso) /\ r.ph # NoVal)))>>

\* _compute_avg_bias_and_today_mean(rows, today_iso): <<avg_bias, today_mean>>
compute_avg_bias_and_today_mean(rows, today_iso) ==
  LET rs == RowsOfDate(rows, today_iso)
      a == FirstActual(rs)
  IN <<MeanBias(rows, DatesOf(rows)),
       IF a = 0 THEN None ELSE MeanOf(fc_vals(rs, rs[a]))>>

\* ------------------------------------------------------------------------
\* Forecast logging
\* ------------------------------------------------------------------------
\* log_forecast: v is the temperature of today's daytime period, NoVal when
\* there is no such period.
log_forecast(P, t, v) ==
  IF v = NoVal THEN P
  ELSE LET target_date == today_nyc(t)
       IN IF actual_exists_for_date(P, target_date) THEN P
          ELSE IF ~forecast_changed_since_last(P, target_date, v) THEN P
          ELSE append_row(P, ForecastRow(t, target_date, v, NoVal, ""))

\* log_forecast_for_tomorrow
log_forecast_for_tomorrow(P, A, t, v) ==
  IF v = NoVal THEN P
  ELSE LET tm == today_nyc(t) + 1
       IN IF ~forecast_changed_since_last(P, tm, v) THEN P
          ELSE LET ra == read_all_rows(P, A)
                   up == upgrade_header_to_include_bcp(P, ra.rows, ra.fns)
                   avg_bias_all == compute_avg_bias_excluding(ra.rows, NoVal)
                   bcp_str == IF IsNone(avg_bias_all) THEN NoVal
                              ELSE Fmt1(FracAdd(Frac(v, 1), avg_bias_all))
               IN append_row(up.file, ForecastRow(t, tm, v, bcp_str, ""))

\* ------------------------------------------------------------------------
\* Actual (provisional + final upsert)
\* ------------------------------------------------------------------------
NoPair == <<>>

\* sort key of the snapshot paths: timestamp or forecast_time or ""
SortKey(r) == IF r.ts # NoVal THEN r.ts ELSE r.ft

\* todays_fc.sort(key=...)[-1]: the sort is stable, so the last element is
\* the last row in file order among those with the greatest key; 0 if none.
latest_today_forecast(rows, today_iso) ==
  LET S == {i \in 1..Len(rows) :
              IsForecastFor(rows[i], today_iso) /\ ~IsNone(float_or_none(rows[i].ph))}
  IN IF S = {} THEN 0
     ELSE CHOOSE i \in S : \A j \in S :
            \/ SortKey(rows[j]) < SortKey(rows[i])
            \/ (SortKey(rows[j]) = SortKey(rows[i]) /\ j <= i)

bcp_is_set_mut(r) == FALSE

\* (latest.get(BCP_FIELD) or "").strip() is non-empty
bcp_is_set(r) == r.bcp # NoVal

\* the freeze block of log_actual_today_if_after_6pm_local (lines 533-564)
freeze_bcp_snapshot(P, A, today_iso) ==
  LET ra == read_all_rows(P, A)
      up == upgrade_header_to_include_bcp(P, ra.rows, ra.fns)
      rows == ra.rows
      avg_bias_excl_today == compute_avg_bias_excluding(rows, today_iso)
      today_pre_mean == compute_today_pre_high_mean(rows, today_iso)
      latest == latest_today_forecast(rows, today_iso)
  IN IF IsNone(avg_bias_excl_today) \/ IsNone(today_pre_mean) THEN up.file
     ELSE IF latest = 0 THEN up.file
     ELSE IF bcp_is_set(rows[latest]) THEN up.file
     ELSE write_all_rows(
            [rows EXCEPT ![latest].bcp = Fmt1(FracAdd(today_pre_mean, avg_bias_excl_today))],
            up.fns)

actual_already_mut(P, cli_date) == FALSE

\* the scan of lines 510-515
actual_already(P, cli_date) ==
  \E i \in 1..Len(P.rows) : IsActualFor(P.rows[i], cli_date)

\* the append of lines 509-531
provisional_append(P, t, pair) ==
  LET cli_date == today_nyc(t)
  IN IF actual_already(P, cli_date) THEN P
     ELSE append_row(P, ActualRow(stamp(t), cli_date, pair[1], pair[2]))

log_actual_skip_when_logged_mut(P, A, t, pair) ==
  IF hour(t) < EveningHour THEN P
  ELSE IF pair = NoPair THEN P
  ELSE IF actual_already(P, today_nyc(t)) THEN P
  ELSE freeze_bcp_snapshot(provisional_append(P, t, pair), A, today_nyc(t))

log_actual_ungated_mut(P, A, t, pair) ==
  IF pair = NoPair THEN P
  ELSE freeze_bcp_snapshot(provisional_append(P, t, pair), A, today_nyc(t))

\* log_actual_today_if_after_6pm_local: pair is the TODAY section of the
\* bulletin, NoPair when the bulletin or the section is missing.
log_actual_today_if_after_6pm_local(P, A, t, pair) ==
  IF hour(t) < EveningHour THEN P
  ELSE IF pair = NoPair THEN P
  ELSE freeze_bcp_snapshot(provisional_append(P, t, pair), A, today_nyc(t))

\* the rows the loop of upsert_actual_row can stop at
upsert_found_any_kind_mut(rows, cli_date_iso) ==
  {i \in 1..Len(rows) : GroupDate(rows[i]) = cli_date_iso}

upsert_found(rows, cli_date_iso) ==
  {i \in 1..Len(rows) : IsActualFor(rows[i], cli_date_iso)}

upsert_delete_and_append_mut(P, A, t, cli_date_iso, temp, time_clean) ==
  LET ra == read_all_rows(P, A)
  IN write_all_rows(
       Append(SelectSeq(ra.rows, LAMBDA r : ~IsActualFor(r, cli_date_iso)),
              ActualRow(stamp(t), cli_date_iso, temp, time_clean)),
       ra.fns)

\* upsert_actual_row
upsert_actual_row(P, A, t, cli_date_iso, temp, time_clean) ==
  LET ra == read_all_rows(P, A)
      rows == ra.rows
      S == upsert_found(rows, cli_date_iso)
  IN IF S = {}
     THEN write_all_rows(Append(rows, ActualRow(stamp(t), cli_date_iso, temp, time_clean)), ra.fns)
     ELSE LET i == CHOOSE k \in S : \A j \in S : k <= j
              r == rows[i]
          IN IF r.ah # temp \/ r.ht # time_clean
             THEN write_all_rows(
                    [rows EXCEPT ![i] = [r EXCEPT !.ts = stamp(t), !.td = cli_date_iso,
                                                  !.kind = "actual", !.ft = NoVal,
                                                  !.ph = NoVal, !.detail = "",
                                                  !.cd = cli_date_iso, !.ah = temp,
                                                  !.ht = time_clean]],
                    ra.fns)
             ELSE write_all_rows(rows, ra.fns)

upsert_yesterday_blank_on_none_mut(P, A, t, pair) ==
  IF ~(0 <= hour(t) /\ hour(t) < MorningEndHour) THEN P
  ELSE IF pair = NoPair THEN upsert_actual_row(P, A, t, today_nyc(t) - 1, NoVal, NoTime)
  ELSE upsert_actual_row(P, A, t, today_nyc(t) - 1, pair[1], pair[2])

\* upsert_yesterday_actual_if_morning_local: pair is the YESTERDAY section
upsert_yesterday_actual_if_morning_local(P, A, t, pair) ==
  IF ~(0 <= hour(t) /\ hour(t) < MorningEndHour) THEN P
  ELSE IF pair = NoPair THEN P
  ELSE upsert_actual_row(P, A, t, today_nyc(t) - 1, pair[1], pair[2])

\* write_today_bcp_snapshot_if_after_6pm
write_today_bcp_snapshot_if_after_6pm(P, A, t) ==
  IF hour(t) < EveningHour THEN P
  ELSE LET ra == read_all_rows(P, A)
           up == upgrade_header_to_include_bcp(P, ra.rows, ra.fns)
           rows == ra.rows
           today_iso == today_nyc(t)
           latest == latest_today_forecast(rows, today_iso)
           both == compute_avg_bias_and_today_mean(rows, today_iso)
       IN IF latest = 0 THEN up.file
          ELSE IF bcp_is_set(rows[latest]) THEN up.file
          ELSE IF IsNone(both[1]) \/ IsNone(both[2]) THEN up.file
          ELSE write_all_rows(
                 [rows EXCEPT ![latest].bcp = Fmt1(FracAdd(both[2], both[1]))],
                 up.fns)

\* get_forecast_periods raises (requests error, raise_for_status); the two
\* forecast steps do not catch it, and it leaves them before any write.
FetchError == -2

\* the three steps after the forecast captures; the bulletin steps catch
\* their own fetch errors (NoPair)
steps_after_forecasts(P, A, t, bulletin) ==
  LET P3 == log_actual_today_if_after_6pm_local(P, A, t, bulletin[1])
      P4 == upsert_yesterday_actual_if_morning_local(P3, A, t, bulletin[2])
  IN write_today_bcp_snapshot_if_after_6pm(P4, A, t)

run_all_once_unguarded_mut(P, A, t, v0, v1, bulletin) ==
  IF v0 = FetchError THEN P
  ELSE IF v1 = FetchError THEN log_forecast(P, t, v0)
  ELSE steps_after_forecasts(
         log_forecast_for_tomorrow(log_forecast(P, t, v0), A, t, v1), A, t, bulletin)

\* run_all_once: the five steps in order, each inside its own try/except and
\* on the file the previous one left; bulletin = <<TODAY section, YESTERDAY
\* section>>
run_all_once(P, A, t, v0, v1, bulletin) ==
  LET P1 == IF v0 = FetchError THEN P ELSE log_forecast(P, t, v0)
      P2 == IF v1 = FetchError THEN P1 ELSE log_forecast_for_tomorrow(P1, A, t, v1)
  IN steps_after_forecasts(P2, A, t, bulletin)

\* run_once.py: ensure_csv_header, then four steps with no try/except, so the
\* exception of a step ends the script with the file as that step found it
run_once(P, A, t, v0, v1, bulletin) ==
  IF v0 = FetchError THEN P
  ELSE IF v1 = FetchError THEN log_forecast(P, t, v0)
  ELSE upsert_yesterday_actual_if_morning_local(
         log_actual_today_if_after_6pm_local(
           log_forecast_for_tomorrow(log_forecast(P, t, v0), A, t, v1), A, t, bulletin[1]),
         A, t, bulletin[2])

\* the values of TASK that main of run_smart.py tells apart; any other value
\* is smart_all
Tasks ==
  {"forecast_today", "forecast_tomorrow", "actual_provisional", "actual_finalize",
   "bcp_snapshot", "smart_all"}

\* run_smart.py main: the steps of the task, with no try/except
run_smart(P, A, t, TASK, v0, v1, bulletin) ==
  CASE TASK = "forecast_today" -> IF v0 = FetchError THEN P ELSE log_forecast(P, t, v0)
    [] TASK = "forecast_tomorrow" ->
         IF v1 = FetchError THEN P ELSE log_forecast_for_tomorrow(P, A, t, v1)
    [] TASK = "actual_provisional" ->
         write_today_bcp_snapshot_if_after_6pm(
           log_actual_today_if_after_6pm_local(P, A, t, bulletin[1]), A, t)
    [] TASK = "actual_finalize" -> upsert_yesterday_actual_if_morning_local(P, A, t, bulletin[2])
    [] TASK = "bcp_snapshot" -> write_today_bcp_snapshot_if_after_6pm(P, A, t)
    [] OTHER ->
         IF v0 = FetchError THEN P
         ELSE IF v1 = FetchError THEN log_forecast(P, t, v0)
         ELSE steps_after_forecasts(
                log_forecast_for_tomorrow(log_forecast(P, t, v0), A, t, v1), A, t, bulletin)

\* ------------------------------------------------------------------------
\* Prediction writer (prediction_writer.py)
\* ------------------------------------------------------------------------
\* int(target_date_iso[5:7]).  The calendar of the model: day 1 is the last
\* day of a month, day 2 the first day of the next.
month_of(d) == IF d <= 1 THEN 1 ELSE 2

\* a call _compute_avg_bias_excluding(rows, exclude_date_iso, **kwargs): the
\* function takes (rows, exclude_date_iso) and nothing else, so a keyword it
\* does not know raises TypeError before its body runs
call_compute_avg_bias_excluding(rows, exclude_date_iso, kwargs) ==
  IF kwargs # {} THEN [val |-> None, exc |-> "TypeError"]
  ELSE [val |-> compute_avg_bias_excluding(rows, exclude_date_iso), exc |-> ""]

\* the average bias write_today_for_today / write_today_for_tomorrow ask for:
\* _compute_avg_bias_excluding(rows, X, target_month=month of the target)
seasonal_avg_bias(rows, exclude_date_iso, target_date) ==
  call_compute_avg_bias_excluding(rows, exclude_date_iso,
                                  {<<"target_month", month_of(target_date)>>})

\* ------------------------------------------------------------------------
\* CLI parsing.  A text is the sequence of its lines (splitlines), a line the
\* sequence of its whitespace-separated words (strip, split), a word the
\* sequence of its characters.
\* ------------------------------------------------------------------------
LowerCase ==
  <<"a", "b", "c", "d", "e", "f", "g", "h", "i", "j", "k", "l", "m",
    "n", "o", "p", "q", "r", "s", "t", "u", "v", "w", "x", "y", "z">>
UpperCase ==
  <<"A", "B", "C", "D", "E", "F", "G", "H", "I", "J", "K", "L", "M",
    "N", "O", "P", "Q", "R", "S", "T", "U", "V", "W", "X", "Y", "Z">>
Digits == <<"0", "1", "2", "3", "4", "5", "6", "7", "8", "9">>

\* str.upper, character by character
upper(w) ==
  [i \in 1..Len(w) |->
     IF \E k \in 1..Len(LowerCase) : LowerCase[k] = w[i]
     THEN UpperCase[CHOOSE k \in 1..Len(LowerCase) : LowerCase[k] = w[i]]
     ELSE w[i]]

\* raw_line.strip().upper(), as words
line_up(raw_line) == [i \in 1..Len(raw_line) |-> upper(raw_line[i])]

IsDigit(c) == \E k \in 1..Len(Digits) : Digits[k] = c
DigitVal(c) == (CHOOSE k \in 1..Len(Digits) : Digits[k] = c) - 1

\* str.isdigit
isdigit(w) == w # <<>> /\ \A i \in 1..Len(w) : IsDigit(w[i])

\* line.startswith(keyword): the line starts with its first word
startswith(line, kw) ==
  /\ line # <<>>
  /\ Len(line[1]) >= Len(kw)
  /\ SubSeq(line[1], 1, Len(kw)) = kw

\* kw in line: kw holds no blank, so it lies inside one word
contains(line, kw) ==
  \E i \in 1..Len(line) : \E k \in 0..(Len(line[i]) - Len(kw)) :
     SubSeq(line[i], k + 1, k + Len(kw)) = kw

\* parts.index(w), counted from 1; 0 stands for ValueError
parts_index(parts, w) ==
  LET S == {i \in 1..Len(parts) : parts[i] = w}
  IN IF S = {} THEN 0 ELSE CHOOSE i \in S : \A j \in S : i <= j

KW_TODAY == <<"T", "O", "D", "A", "Y">>
KW_YESTERDAY == <<"Y", "E", "S", "T", "E", "R", "D", "A", "Y">>
KW_MAXIMUM == <<"M", "A", "X", "I", "M", "U", "M">>
AM == <<"A", "M">>
PM == <<"P", "M">>

\* _TIME_TOKEN.match: ^\d{3,4}$ | ^\d{1,2}:\d{2}$
TIME_TOKEN(w) ==
  \/ Len(w) \in {3, 4} /\ isdigit(w)
  \/ \E k \in {1, 2} :
        /\ Len(w) = k + 3
        /\ isdigit(SubSeq(w, 1, k))
        /\ w[k + 1] = ":"
        /\ isdigit(SubSeq(w, k + 2, k + 3))

zfill4_unpadded_mut(w) == w

\* str.zfill(4): zeros go after a leading sign
zfill4(w) ==
  LET pad == [i \in 1..(4 - Len(w)) |-> "0"]
  IN IF Len(w) >= 4 THEN w
     ELSE IF w # <<>> /\ w[1] \in {"+", "-"} THEN <<w[1]>> \o pad \o Tail(w)
     ELSE pad \o w

RECURSIVE DigitsVal(_)
DigitsVal(w) == IF w = <<>> THEN 0 ELSE 10 * DigitsVal(SubSeq(w, 1, Len(w) - 1)) + DigitVal(w[Len(w)])

\* int(hh): [ok |-> FALSE] stands for ValueError
int(hh) ==
  LET signed == hh # <<>> /\ hh[1] \in {"+", "-"}
      body == IF signed THEN Tail(hh) ELSE hh
  IN IF ~isdigit(body) THEN [ok |-> FALSE, val |-> 0]
     ELSE [ok |-> TRUE,
           val |-> IF signed /\ hh[1] = "-" THEN 0 - DigitsVal(body) ELSE DigitsVal(body)]

\* the decimal text of an integer, as f"{hh_i}" prints it
RECURSIVE Dec(_)
Dec(n) ==
  IF n < 0 THEN <<"-">> \o Dec(0 - n)
  ELSE IF n < 10 THEN <<Digits[n + 1]>>
  ELSE Dec(n \div 10) \o <<Digits[(n % 10) + 1]>>

\* raw.split(":", 1) when ":" in raw, else the two halves of zfill(4) with
\* one leading zero of the hour dropped
hour_and_minute(raw) ==
  LET C == {i \in 1..Len(raw) : raw[i] = ":"}
  IN IF C # {}
     THEN LET c == CHOOSE i \in C : \A j \in C : i <= j
          IN <<SubSeq(raw, 1, c - 1), SubSeq(raw, c + 1, Len(raw))>>
     ELSE LET digits == zfill4(raw)
              hh == SubSeq(digits, 1, 2)
          IN <<IF hh[1] = "0" THEN Tail(hh) ELSE hh, SubSeq(digits, 3, Len(digits))>>

normalize_cli_time_uncaught_mut(raw, ampm) ==
  LET hm == hour_and_minute(raw)
      hh_i == int(hm[1])
  IN IF ~hh_i.ok THEN [out |-> <<>>, exc |-> "ValueError"]
     ELSE [out |-> Dec(hh_i.val) \o <<":">> \o hm[2]
                     \o (IF ampm = <<>> THEN <<>> ELSE <<" ">> \o upper(ampm)),
           exc |-> ""]

\* _normalize_cli_time(raw, ampm); ampm is <<>> for None.  out is the text
\* returned, exc the exception that leaves the function ("" for none).
normalize_cli_time(raw, ampm) ==
  LET hm == hour_and_minute(raw)
      hh_i == int(hm[1])
  IN IF ~hh_i.ok THEN [out |-> raw, exc |-> ""]
     ELSE [out |-> Dec(hh_i.val) \o <<":">> \o hm[2]
                     \o (IF ampm = <<>> THEN <<>> ELSE <<" ">> \o upper(ampm)),
           exc |-> ""]

\* lines 451-470 on one line of a section: the (temp, t_clean) the line
\* gives, NoPair when it gives none
maximum_line(parts) ==
  IF ~contains(parts, KW_MAXIMUM) THEN [pair |-> NoPair, exc |-> ""]
  ELSE LET i == parts_index(parts, KW_MAXIMUM)
           temp == IF i + 1 <= Len(parts) /\ isdigit(parts[i + 1]) THEN parts[i + 1] ELSE <<>>
           tkn_time == IF i + 2 <= Len(parts) /\ TIME_TOKEN(parts[i + 2]) THEN parts[i + 2] ELSE <<>>
           ampm == IF i + 3 <= Len(parts) /\ parts[i + 3] \in {AM, PM} THEN parts[i + 3] ELSE <<>>
       IN IF i = 0 THEN [pair |-> NoPair, exc |-> ""]
          ELSE IF temp = <<>> \/ tkn_time = <<>> THEN [pair |-> NoPair, exc |-> ""]
          ELSE LET t_clean == normalize_cli_time(tkn_time, ampm)
               IN [pair |-> <<temp, t_clean.out>>, exc |-> t_clean.exc]

keep_last_mut(held, new) == new

\* "if current == ... and not today_pair": the pair already held stays
keep_first(held, new) == IF held # NoPair THEN held ELSE new

\* the loop of _parse_cli_sections over the remaining lines
RECURSIVE parse_loop(_, _, _, _)
parse_loop(lines, current, today_pair, yday_pair) ==
  IF lines = <<>> THEN [TODAY |-> today_pair, YESTERDAY |-> yday_pair, exc |-> ""]
  ELSE LET parts == line_up(Head(lines))
           rest == Tail(lines)
       IN IF startswith(parts, KW_TODAY) THEN parse_loop(rest, "TODAY", today_pair, yday_pair)
          ELSE IF startswith(parts, KW_YESTERDAY)
               THEN parse_loop(rest, "YESTERDAY", today_pair, yday_pair)
          ELSE IF current = "" THEN parse_loop(rest, current, today_pair, yday_pair)
          ELSE LET m == maximum_line(parts)
               IN IF m.exc # "" THEN [TODAY |-> NoPair, YESTERDAY |-> NoPair, exc |-> m.exc]
                  ELSE IF m.pair = NoPair THEN parse_loop(rest, current, today_pair, yday_pair)
                  ELSE IF current = "TODAY"
                       THEN parse_loop(rest, current, keep_first(today_pair, m.pair), yday_pair)
                       ELSE parse_loop(rest, current, today_pair, keep_first(yday_pair, m.pair))

\* _parse_cli_sections(cli_text): the mapping returned, exc the exception
\* that leaves the function ("" for none)
parse_cli_sections(cli_text) == parse_loop(cli_text, "", NoPair, NoPair)

\* ------------------------------------------------------------------------
\* Secondary feed (accuweather_logger.py)
\* ------------------------------------------------------------------------
is_after_6pm_local(t) == t.min >= EveningHour * 60

actual_already_logged(A, target_iso) ==
  \E i \in 1..Len(A) : A[i].td = target_iso /\ (A[i].kind = "actual" \/ A[i].ah # NoVal)

forecast_already_logged(A, target_iso, source) ==
  \E i \in 1..Len(A) :
     A[i].td = target_iso /\ A[i].kind = "forecast" /\ A[i].src = source

\* rows_for_today_and_tomorrow: j = <<max of D0, max of D1>>, NoPair when
\* the response has fewer than two daily forecasts or the fetch failed
rows_for_today_and_tomorrow(A, t, j) ==
  IF j = NoPair THEN <<>>
  ELSE LET today_str == today_nyc(t)
           tomorrow_str == today_nyc(t) + 1
           d0 == IF /\ ~is_after_6pm_local(t)
                    /\ ~actual_already_logged(A, today_str)
                    /\ ~forecast_already_logged(A, today_str, "AccuWeather")
                 THEN <<ForecastRow(t, today_str, j[1], NoVal, "AccuWeather")>>
                 ELSE <<>>
           d1 == IF ~forecast_already_logged(A, tomorrow_str, "AccuWeather")
                 THEN <<ForecastRow(t, tomorrow_str, j[2], NoVal, "AccuWeather")>>
                 ELSE <<>>
       IN d0 \o d1

\* main / append_rows
accu_main(A, t, j) == A \o rows_for_today_and_tomorrow(A, t, j)

\* ------------------------------------------------------------------------
\* State machine
\* ------------------------------------------------------------------------
Feed == Temps \cup {NoVal}
Sections == Bulletins \cup {NoPair}
AccuFeed == (AccuTemps \X AccuTemps) \cup {NoPair}

\* no bulletin text has been read and no call of the parser has returned
NoParse == [TODAY |-> NoPair, YESTERDAY |-> NoPair, exc |-> ""]
NoCall == [raw |-> <<>>, ampm |-> <<>>, out |-> <<>>, exc |-> "", called |-> FALSE]

\* the invocations of provisional capture that may overlap, and what one of
\* them holds between its scan of the file and its append
Procs == {1, 2}
IdleCapture == [pc |-> "idle", ts |-> NoVal, cli_date |-> NoVal, pair |-> NoPair, seen |-> FALSE]

InitCli ==
  /\ cli_body = <<>>
  /\ cli_pc = "reading"
  /\ parsed = NoParse
  /\ normalized = NoCall

Init ==
  /\ now = [day |-> 1, min |-> SlotMin[1]]
  /\ primary = [fns |-> BASE_HEADER \o <<BCP_FIELD>>, rows |-> <<>>]
  /\ accu = <<>>
  /\ recorded = {}
  /\ InitCli
  /\ capture = [p \in Procs |-> IdleCapture]

\* the clock moves to the next instant at which an invocation happens
Tick ==
  /\ \E k \in 1..Len(SlotMin) :
       /\ now.min = SlotMin[k]
       /\ IF k < Len(SlotMin)
          THEN now' = [now EXCEPT !.min = SlotMin[k + 1]]
          ELSE /\ now.day < MaxDay
               /\ now' = [day |-> now.day + 1, min |-> SlotMin[1]]
  /\ UNCHANGED <<primary, accu, recorded>>
  /\ UNCHANGED <<cliVars, capture>>

\* recorded is a history variable: the dates for which provisional capture
\* or finalize-yesterday got past its gates and its parse, that is, has
\* recorded an actual.
Store(P, dates) ==
  /\ Len(P.rows) <= MaxRows
  /\ primary' = P
  /\ recorded' = recorded \cup dates
  /\ UNCHANGED <<now, accu>>
  /\ UNCHANGED <<cliVars, capture>>

ProvisionalDates(t, pair) ==
  IF hour(t) >= EveningHour /\ pair # NoPair THEN {today_nyc(t)} ELSE {}

FinalizeDates(t, pair) ==
  IF hour(t) < MorningEndHour /\ pair # NoPair THEN {today_nyc(t) - 1} ELSE {}

LogForecast == \E v \in Feed : Store(log_forecast(primary, now, v), {})

LogForecastForTomorrow ==
  \E v \in Feed : Store(log_forecast_for_tomorrow(primary, accu, now, v), {})

LogActualToday ==
  \E pair \in Sections :
     Store(log_actual_today_if_after_6pm_local(primary, accu, now, pair),
           ProvisionalDates(now, pair))

UpsertYesterday ==
  \E pair \in Sections :
     Store(upsert_yesterday_actual_if_morning_local(primary, accu, now, pair),
           FinalizeDates(now, pair))

BcpSnapshot == Store(write_today_bcp_snapshot_if_after_6pm(primary, accu, now), {})

AccuMain ==
  \E j \in AccuFeed :
     /\ Len(accu_main(accu, now, j)) <= MaxAccu
     /\ accu' = accu_main(accu, now, j)
     /\ UNCHANGED <<now, primary, recorded>>
     /\ UNCHANGED <<cliVars, capture>>

Next ==
  \/ Tick
  \/ LogForecast
  \/ LogForecastForTomorrow
  \/ LogActualToday
  \/ UpsertYesterday
  \/ BcpSnapshot
  \/ AccuMain

Spec == Init /\ [][Next]_vars

\* A log file that predates the bias column: ensure_csv_header finds the file
\* and leaves its header, BASE_HEADER, as it is.
InitLegacy ==
  /\ now = [day |-> 1, min |-> SlotMin[1]]
  /\ primary = [fns |-> BASE_HEADER, rows |-> <<>>]
  /\ accu = <<>>
  /\ recorded = {}
  /\ InitCli
  /\ capture = [p \in Procs |-> IdleCapture]

SpecLegacy == InitLegacy /\ [][Next]_vars

\* The primary job alone: every invocation is one run_all_once, and
\* accuweather_log.csv stays empty.  A forecast request either returns a
\* daytime period or raises.  At the instants of SlotMin only one section of
\* the bulletin is read (TODAY from 18:00, YESTERDAY before 12:00), so the
\* other one is left out.
RunFeed == Temps \cup {FetchError}
RunSections == {<<33, <<1, 0, "PM">>>>, NoPair}
BulletinAt(t, pair) == IF hour(t) >= EveningHour THEN <<pair, NoPair>> ELSE <<NoPair, pair>>

RunAllOnce ==
  \E v0 \in RunFeed, v1 \in RunFeed, pair \in RunSections :
     Store(run_all_once(primary, accu, now, v0, v1, BulletinAt(now, pair)),
           ProvisionalDates(now, pair) \cup FinalizeDates(now, pair))

NextRun ==
  \/ Tick
  \/ RunAllOnce

SpecRun == Init /\ [][NextRun]_vars

\* The bulletin parser alone.  The text of a bulletin arrives line by line and
\* _parse_cli_sections runs on the text read so far; a process that has read
\* no bulletin calls _normalize_cli_time on its own.
W_today == <<"t", "o", "d", "a", "y">>
W_75 == <<"7", "5">>
W_145 == <<"1", "4", "5">>
CliLines ==
  {<<W_today>>,
   <<KW_YESTERDAY>>,
   <<KW_TODAY, KW_MAXIMUM, W_75, W_145, PM>>,
   <<KW_MAXIMUM, W_75, W_145, PM>>,
   <<<<"D", "A", "I", "L", "Y">>, KW_MAXIMUM, <<"7", "1">>, <<"0", "1", "5", "4">>, AM>>,
   <<KW_MAXIMUM, <<"M", "M">>, W_145, PM>>,
   <<KW_MAXIMUM, W_75, <<"1", "2">>, PM>>,
   <<KW_MAXIMUM \o <<":">>, W_75, W_145, PM>>}

\* arguments of a direct call of _normalize_cli_time
NormInputs ==
  {W_145, <<"1", ":", "4", "5">>, <<"A", "B", "4", "5">>, <<":", "3", "0">>}

ReceiveLine ==
  /\ Len(cli_body) < MaxLines
  /\ \E l \in CliLines : cli_body' = Append(cli_body, l)
  /\ cli_pc' = "reading"
  /\ parsed' = NoParse
  /\ normalized' = NoCall
  /\ UNCHANGED <<capture, now, primary, accu, recorded>>

ParseCli ==
  /\ cli_pc = "reading"
  /\ parsed' = parse_cli_sections(cli_body)
  /\ cli_pc' = "parsed"
  /\ UNCHANGED <<capture, now, primary, accu, recorded, cli_body, normalized>>

NormalizeCliTime ==
  /\ cli_body = <<>>
  /\ \E raw \in NormInputs, ampm \in {<<>>, PM} :
       LET r == normalize_cli_time(raw, ampm)
       IN normalized' = [raw |-> raw, ampm |-> ampm, out |-> r.out, exc |-> r.exc,
                      called |-> TRUE]
  /\ UNCHANGED <<capture, now, primary, accu, recorded, cli_body, cli_pc, parsed>>

NextParse ==
  \/ ReceiveLine
  \/ ParseCli
  \/ NormalizeCliTime

SpecParse == Init /\ [][NextParse]_vars

\* _append_row alone, on a file that is missing, has the canonical header,
\* predates the bias column, or has been rewritten with the source column.
\* The rows are those the callers build, and one that carries a source.
AppendInputs(t) ==
  {ForecastRow(t, today_nyc(t), 30, NoVal, ""),
   ForecastRow(t, today_nyc(t) + 1, 30, 305, ""),
   ActualRow(stamp(t), today_nyc(t), 33, <<1, 0, "PM">>),
   ForecastRow(t, today_nyc(t), 34, NoVal, "AccuWeather")}

InitAppend ==
  /\ now = [day |-> 1, min |-> SlotMin[1]]
  /\ primary \in {Absent,
                  [fns |-> BASE_HEADER \o <<BCP_FIELD>>, rows |-> <<>>],
                  [fns |-> BASE_HEADER, rows |-> <<>>],
                  [fns |-> ACCU_HEADER, rows |-> <<>>]}
  /\ accu = <<>>
  /\ recorded = {}
  /\ InitCli
  /\ capture = [p \in Procs |-> IdleCapture]

AppendRow == \E row \in AppendInputs(now) : Store(append_row(primary, row), {})

NextAppend ==
  \/ Tick
  \/ AppendRow

SpecAppend == InitAppend /\ [][NextAppend]_vars

\* The other entry points: every invocation is one run of run_once.py or of
\* run_smart.py under some TASK.
RunOnce ==
  \E v0 \in RunFeed, v1 \in RunFeed, pair \in RunSections :
     Store(run_once(primary, accu, now, v0, v1, BulletinAt(now, pair)),
           IF v0 = FetchError \/ v1 = FetchError THEN {}
           ELSE ProvisionalDates(now, pair) \cup FinalizeDates(now, pair))

RunSmart ==
  \E TASK \in Tasks, v0 \in RunFeed, v1 \in RunFeed, pair \in RunSections :
     Store(run_smart(primary, accu, now, TASK, v0, v1, BulletinAt(now, pair)),
           IF TASK = "actual_provisional" THEN ProvisionalDates(now, pair)
           ELSE IF TASK = "actual_finalize" THEN FinalizeDates(now, pair)
           ELSE IF TASK = "smart_all" /\ v0 # FetchError /\ v1 # FetchError
                THEN ProvisionalDates(now, pair) \cup FinalizeDates(now, pair)
           ELSE {})

NextEntry ==
  \/ Tick
  \/ RunOnce
  \/ RunSmart

SpecEntry == Init /\ [][NextEntry]_vars

\* Provisional capture on its own, with the outcomes of its freeze block told
\* apart: the block's try/except (lines 534-564) swallows an error of the
\* freeze, which leaves the file as the append left it.  Invocations after
\* 6 pm with a parseable TODAY section keep occurring.
LogActualParsed ==
  \E pair \in Bulletins :
     Store(log_actual_today_if_after_6pm_local(primary, accu, now, pair),
           ProvisionalDates(now, pair))

LogActualFreezeError ==
  /\ hour(now) >= EveningHour
  /\ \E pair \in Bulletins :
       Store(provisional_append(primary, now, pair), ProvisionalDates(now, pair))

NextCapture ==
  \/ Tick
  \/ LogForecast
  \/ LogForecastForTomorrow
  \/ LogActualToday
  \/ UpsertYesterday
  \/ LogActualFreezeError

\* a capture after 6 pm would fill the slot of today's snapshot: the average
\* bias excluding today and today's pre-high mean exist (so today's Actual
\* is in the log) and the latest Forecast row for today carries no value
CaptureDue ==
  LET d == today_nyc(now)
      rows == read_all_rows(primary, accu).rows
      latest == latest_today_forecast(rows, d)
  IN /\ hour(now) >= EveningHour
     /\ ~IsNone(compute_avg_bias_excluding(rows, d))
     /\ ~IsNone(compute_today_pre_high_mean(rows, d))
     /\ latest # 0
     /\ ~bcp_is_set(rows[latest])

\* weak fairness of the capture while it is due (CaptureDue implies that
\* LogActualParsed is enabled and changes the file)
SpecCapture ==
  /\ Init /\ [][NextCapture]_vars
  /\ (<>[]CaptureDue => []<><<LogActualParsed>>_vars)

\* Provisional capture with its two readings of the clock told apart: now is
\* read once for the hour gate and the timestamp (line 486), today_nyc() is
\* read again for cli_date (line 506) after the bulletin has been fetched
\* (requests.get without a timeout, line 494), so the second reading is the
\* same instant or any later one.
log_actual_today_reread(P, A, t_gate, t_date, pair) ==
  IF hour(t_gate) < EveningHour THEN P
  ELSE IF pair = NoPair THEN P
  ELSE LET cli_date == today_nyc(t_date)
           appended == IF actual_already(P, cli_date) THEN P
                       ELSE append_row(P, ActualRow(stamp(t_gate), cli_date, pair[1], pair[2]))
       IN freeze_bcp_snapshot(appended, A, cli_date)

\* the instants at which today_nyc() can be read again: at once, or after
\* midnight has passed
RereadInstants(t) == {t, [day |-> t.day + 1, min |-> 0]}

LogActualReread ==
  \E pair \in Sections : \E t_date \in RereadInstants(now) :
     Store(log_actual_today_reread(primary, accu, now, t_date, pair),
           ProvisionalDates(now, pair))

NextMidnight ==
  \/ Tick
  \/ LogForecast
  \/ LogForecastForTomorrow
  \/ LogActualReread
  \/ UpsertYesterday

SpecMidnight == Init /\ [][NextMidnight]_vars

\* Two invocations of provisional capture that may overlap.  There is no
\* lock: the scan for an existing Actual (lines 509-515) and _append_row
\* (lines 517-528) are separate operations on the file, and another
\* invocation's operations can come between them.  An invocation keeps the
\* timestamp, cli_date, pair and scan result it computed.
CaptureCheck(p) ==
  /\ capture[p].pc = "idle"
  /\ hour(now) >= EveningHour
  /\ \E pair \in Bulletins :
       capture' = [capture EXCEPT ![p] =
                     [pc |-> "checked", ts |-> stamp(now), cli_date |-> today_nyc(now),
                      pair |-> pair, seen |-> actual_already(primary, today_nyc(now))]]
  /\ primary' = ensure_csv_header(primary)
  /\ UNCHANGED <<now, accu, recorded, cliVars>>

CaptureAppend(p) ==
  /\ capture[p].pc = "checked"
  /\ LET c == capture[p]
         appended == IF c.seen THEN primary
                     ELSE append_row(primary, ActualRow(c.ts, c.cli_date, c.pair[1], c.pair[2]))
         P == freeze_bcp_snapshot(appended, accu, c.cli_date)
     IN /\ Len(P.rows) <= MaxRows
        /\ primary' = P
        /\ recorded' = recorded \cup {c.cli_date}
  /\ capture' = [capture EXCEPT ![p] = IdleCapture]
  /\ UNCHANGED <<now, accu, cliVars>>

NextOverlap ==
  \/ Tick
  \/ LogForecast
  \/ \E p \in Procs : CaptureCheck(p)
  \/ \E p \in Procs : CaptureAppend(p)

SpecOverlap == Init /\ [][NextOverlap]_vars

\* The secondary logger alone, with accuweather_log.csv line by line.
\* append_rows opens the file in append mode and writes data rows only, so a
\* file the logger has created has no header line, while both scans start
\* with header = next(r, None), which takes the first line of the file
\* whatever it holds.  In this specification accu is the sequence of the
\* file's lines; the file is absent or holds its header line at the start.
AccuHeaderLine ==
  [ts |-> NoVal, td |-> NoVal, kind |-> "forecast_or_actual", ft |-> NoVal,
   ph |-> NoVal, detail |-> "forecast_detail", cd |-> NoVal, ah |-> NoVal,
   ht |-> NoTime, bcp |-> NoVal, src |-> "source"]

\* the lines the loop 'for row in r' sees after next(r, None)
rows_after_header(F) == IF F = <<>> THEN <<>> ELSE Tail(F)

AccuRunFeed == ((AccuTemps \cup {36}) \X (AccuTemps \cup {36})) \cup {NoPair}

InitAccu ==
  /\ now = [day |-> 1, min |-> SlotMin[1]]
  /\ primary = [fns |-> BASE_HEADER \o <<BCP_FIELD>>, rows |-> <<>>]
  /\ accu \in {<<>>, <<AccuHeaderLine>>}
  /\ recorded = {}
  /\ InitCli
  /\ capture = [p \in Procs |-> IdleCapture]

AccuRun ==
  \E j \in AccuRunFeed :
     LET rows == rows_for_today_and_tomorrow(rows_after_header(accu), now, j)
     IN /\ Len(accu) + Len(rows) <= MaxAccu + 1
        /\ accu' = accu \o rows
        /\ UNCHANGED <<now, primary, recorded>>
        /\ UNCHANGED <<cliVars, capture>>

NextAccu ==
  \/ Tick
  \/ AccuRun

SpecAccu == InitAccu /\ [][NextAccu]_vars

\* ------------------------------------------------------------------------
\* Properties
\* ------------------------------------------------------------------------
Dates == 0..(MaxDay + 1)
Evening == hour(now) >= EveningHour
Morning == hour(now) < MorningEndHour

ActualRowsFor(P, d) == {i \in 1..Len(P.rows) : P.rows[i].kind = "actual" /\ P.rows[i].td = d}
ForecastRowsFor(rows, d) == {i \in 1..Len(rows) : rows[i].kind = "forecast" /\ rows[i].td = d}

\* C1: the primary log holds at most one Actual row for every date, and
\* exactly one for every date for which provisional capture or
\* finalize-yesterday has recorded an actual.
C1_AtMostOneActual ==
  \A d \in Dates :
     /\ Cardinality(ActualRowsFor(primary, d)) <= 1
     /\ d \in recorded => Cardinality(ActualRowsFor(primary, d)) = 1

\* an Actual that finalize-yesterday wrote on the day after its date, in a log
\* that also holds a provisional Actual of a later evening
C1_Witness ==
  \E d \in recorded :
     /\ d + 1 \in recorded
     /\ \E i \in ActualRowsFor(primary, d) : iso_date_of_stamp(primary.rows[i].ts) = d + 1
     /\ \E i \in ActualRowsFor(primary, d + 1) : iso_date_of_stamp(primary.rows[i].ts) = d + 1

\* C2: when an Actual row for today exists, log_forecast appends no Forecast
\* row for today, whatever temperature the feed returns.
C2_FreezeSameDay ==
  \A v \in Temps :
     ActualRowsFor(primary, today_nyc(now)) # {}
       => log_forecast(primary, now, v) = primary

\* an Actual for today exists and the feed value differs from the last
\* recorded forecast for today
C2_Witness ==
  /\ ActualRowsFor(primary, today_nyc(now)) # {}
  /\ \E v \in Temps : forecast_changed_since_last(primary, today_nyc(now), v)
  /\ ForecastRowsFor(primary.rows, today_nyc(now)) # {}

\* C3: once an Actual row exists for a date, no step of any operation adds a
\* Forecast row for that date to either log file.
C3_NoForecastAfterActual ==
  [][\A d \in Dates :
       ActualRowsFor(primary, d) # {}
         => /\ Cardinality(ForecastRowsFor(primary'.rows, d))
                 <= Cardinality(ForecastRowsFor(primary.rows, d))
            /\ Cardinality(ForecastRowsFor(accu', d))
                 <= Cardinality(ForecastRowsFor(accu, d))]_vars

LastPhFor(P, d) ==
  LET last == get_last_forecast_row_for_date(P, d)
  IN IF last = 0 THEN NoVal ELSE P.rows[last].ph

\* C4: a second same-day (next-day) capture with the same value right after
\* the first appends nothing; the two runs together add at most one row, and
\* when a row was added the last Forecast row of the date carries the value.
C4_IdempotentAppend ==
  \A v \in Temps :
     LET A1 == log_forecast(primary, now, v)
         B1 == log_forecast_for_tomorrow(primary, accu, now, v)
     IN /\ log_forecast(A1, now, v) = A1
        /\ Len(A1.rows) <= Len(primary.rows) + 1
        /\ (A1 # primary => LastPhFor(A1, today_nyc(now)) = v)
        /\ log_forecast_for_tomorrow(B1, accu, now, v) = B1
        /\ Len(B1.rows) <= Len(primary.rows) + 1
        /\ (B1 # primary => LastPhFor(B1, today_nyc(now) + 1) = v)

\* both captures have just appended (rows stamped with the current instant)
\* and the feed value is the one they recorded
C4_Witness ==
  /\ \E i \in ForecastRowsFor(primary.rows, today_nyc(now)) :
        primary.rows[i].ts = stamp(now) /\ primary.rows[i].src = ""
  /\ \E i \in ForecastRowsFor(primary.rows, today_nyc(now) + 1) :
        primary.rows[i].ts = stamp(now) /\ primary.rows[i].src = ""
  /\ ActualRowsFor(primary, today_nyc(now)) = {}

\* the Forecast rows of the primary feed for a date, in file order
PrimaryFeedPh(P, d) ==
  PhOf(SelectSeq(P.rows, LAMBDA r : IsForecastFor(r, d) /\ r.src # "AccuWeather"))

\* C5: with no freeze in force a primary capture for today appends exactly
\* when the value differs from the last Forecast row the primary feed recorded
\* for the date, and no two consecutive primary-feed Forecast rows of a date
\* carry the same predicted_high.
C5_DedupByValueChange ==
  /\ \A d \in Dates :
       LET phs == PrimaryFeedPh(primary, d)
       IN \A k \in 1..(Len(phs) - 1) : phs[k] # phs[k + 1]
  /\ \A v \in Temps :
       LET d == today_nyc(now)
           phs == PrimaryFeedPh(primary, d)
       IN ActualRowsFor(primary, d) = {}
            => ((log_forecast(primary, now, v) # primary)
                  <=> (phs = <<>> \/ phs[Len(phs)] # v))

\* C6: in the evening, a second provisional capture right after the first,
\* with the same TODAY section, finds today's Actual recorded, runs only its
\* bias-freeze block, and leaves the primary file as the first call left it.
C6_FreezeOnce ==
  Evening
    => \A pair \in Bulletins :
         LET P1 == log_actual_today_if_after_6pm_local(primary, accu, now, pair)
         IN log_actual_today_if_after_6pm_local(P1, accu, now, pair) = P1

BcpRowsFor(P, d) == {i \in 1..Len(P.rows) : P.rows[i].td = d /\ P.rows[i].bcp # NoVal}

\* C7 as stated: at most one row of a date carries a bias_corrected_prediction
\* and a date whose row carries one has an Actual row.
C7_Original ==
  \A d \in Dates :
     /\ Cardinality(BcpRowsFor(primary, d)) <= 1
     /\ BcpRowsFor(primary, d) # {} => ActualRowsFor(primary, d) # {}

\* C7 amended: a bias_corrected_prediction is only ever on a Forecast row,
\* and on a row for date D only if an Actual row for D exists (post-6pm
\* snapshot) or the row is one that the primary feed's next-day capture
\* appended on an earlier day (live estimate).
C7_Amended ==
  \A i \in 1..Len(primary.rows) :
     LET r == primary.rows[i]
     IN r.bcp # NoVal
          => /\ r.kind = "forecast"
             /\ \/ ActualRowsFor(primary, r.td) # {}
                \/ (iso_date_of_stamp(r.ts) < r.td /\ r.src = "")

\* a row captured on its own day carries a snapshot, next to a live estimate
\* on a row captured the day before
C7_Witness ==
  /\ \E i \in 1..Len(primary.rows) :
        /\ primary.rows[i].bcp # NoVal
        /\ iso_date_of_stamp(primary.rows[i].ts) = primary.rows[i].td
  /\ \E i \in 1..Len(primary.rows) :
        /\ primary.rows[i].bcp # NoVal
        /\ iso_date_of_stamp(primary.rows[i].ts) < primary.rows[i].td

\* C8: a non-blank bias_corrected_prediction stays on its row, unchanged,
\* across every step.
C8_NeverOverwritten ==
  [][\A i \in 1..Len(primary.rows) :
       primary.rows[i].bcp # NoVal
         => /\ i <= Len(primary'.rows)
            /\ primary'.rows[i].bcp = primary.rows[i].bcp]_vars

\* a row holds a snapshot taken on its own day, the file has been rewritten
\* since (an Actual row stamped later than the snapshot's evening exists)
C8_Witness ==
  \E i, j \in 1..Len(primary.rows) :
     /\ primary.rows[i].bcp # NoVal
     /\ primary.rows[j].kind = "actual"
     /\ iso_date_of_stamp(primary.rows[j].ts) > primary.rows[i].td

ExpectedSnapshot(rows, d) ==
  LET m == compute_today_pre_high_mean(rows, d)
      b == compute_avg_bias_excluding(rows, d)
  IN IF IsNone(m) \/ IsNone(b) THEN NoVal ELSE Fmt1(FracAdd(m, b))

\* row i of the rewritten file received its value in this step
SnapshotWritten(i) ==
  /\ primary'.rows[i].bcp # NoVal
  /\ (i <= Len(primary.rows) => primary.rows[i].bcp = NoVal)

\* C9: every value a post-6pm snapshot step (provisional capture's freeze, or
\* write_today_bcp_snapshot_if_after_6pm) writes equals mean(pre-high
\* forecasts of today) + average bias over the completed days other than
\* today.  (The bias functions do not read bias_corrected_prediction, so they
\* give the same result on the rewritten rows as on the rows read.)
C9_SnapshotFormula ==
  [][(BcpSnapshot \/ LogActualToday)
       => \A i \in 1..Len(primary'.rows) :
            SnapshotWritten(i)
              => primary'.rows[i].bcp = ExpectedSnapshot(primary'.rows, today_nyc(now))]_vars

\* C10: from every state, a second run_all_once with the same responses at
\* the same instant leaves the primary file as the first run left it.
C10_SafeRerun ==
  \A v0 \in Feed, v1 \in Feed, b \in Sections \X Sections :
     \A P1 \in {run_all_once(primary, accu, now, v0, v1, b)} :
        run_all_once(P1, accu, now, v0, v1, b) = P1

OtherRowsKept(P, P1, i) ==
  \A j \in 1..Len(P.rows) : j # i => (j <= Len(P1.rows) /\ P1.rows[j] = P.rows[j])

\* C11: finalize-yesterday replaces the Actual row of yesterday in place
\* (leaving it untouched when temperature and time already match) or appends
\* exactly one Actual row; every other row of the primary file is unchanged
\* and the file grows by 0 or by 1 row.
C11_UpsertFrame ==
  Morning
    => \A pair \in Bulletins :
         LET d == today_nyc(now) - 1
             P1 == upsert_yesterday_actual_if_morning_local(primary, accu, now, pair)
             S == ActualRowsFor(primary, d)
         IN IF S # {}
            THEN LET i == CHOOSE k \in S : \A j \in S : k <= j
                 IN /\ Len(P1.rows) = Len(primary.rows)
                    /\ P1.rows[i].kind = "actual" /\ P1.rows[i].cd = d
                    /\ P1.rows[i].ah = pair[1] /\ P1.rows[i].ht = pair[2]
                    /\ (primary.rows[i].ah = pair[1] /\ primary.rows[i].ht = pair[2]
                          => P1.rows[i] = primary.rows[i])
                    /\ OtherRowsKept(primary, P1, i)
            ELSE /\ Len(P1.rows) = Len(primary.rows) + 1
                 /\ P1.rows[Len(P1.rows)] = ActualRow(stamp(now), d, pair[1], pair[2])
                 /\ OtherRowsKept(primary, P1, 0)

\* instants of a day around the edges of the time windows
GateMinutes == {0, 719, 720, 1079, 1080, 1439}

ActualsOf(P, d) == SelectSeq(P.rows, LAMBDA r : r.kind = "actual" /\ r.td = d)

\* C12: at every instant of the day, provisional capture leaves the primary
\* file as it is, whatever the bulletin, unless the hour is >= 18, and
\* finalize-yesterday leaves it as it is unless the hour is < 12; inside its
\* window finalize records the Actual of the day before that instant and
\* touches the Actual rows of no other date.
C12_TimeGating ==
  \A m \in GateMinutes \cup {now.min} :
     LET t == [day |-> now.day, min |-> m]
     IN \A pair \in Sections :
          LET P1 == log_actual_today_if_after_6pm_local(primary, accu, t, pair)
              P2 == upsert_yesterday_actual_if_morning_local(primary, accu, t, pair)
          IN /\ (m < EveningHour * 60 => P1 = primary)
             /\ (m >= MorningEndHour * 60 => P2 = primary)
             /\ (m < MorningEndHour * 60 /\ pair # NoPair
                   => /\ \E i \in ActualRowsFor(P2, t.day - 1) :
                           P2.rows[i].ah = pair[1] /\ P2.rows[i].ht = pair[2]
                      /\ \A d \in Dates :
                           d # t.day - 1 => ActualsOf(P2, d) = ActualsOf(primary, d))

\* in the evening, next to the provisional Actual just captured for today,
\* the file holds yesterday's Actual as finalize wrote it this morning
C12_Witness ==
  /\ Evening
  /\ \E i \in ActualRowsFor(primary, today_nyc(now)) : primary.rows[i].ts = stamp(now)
  /\ \E i \in ActualRowsFor(primary, today_nyc(now) - 1) :
        /\ iso_date_of_stamp(primary.rows[i].ts) = today_nyc(now)
        /\ primary.rows[i].ts % MinutesPerDay < MorningEndHour * 60

\* C13: at 18:00 or later no feed appends a Forecast row for today: for every
\* value the primary feed returns log_forecast leaves the number of today's
\* Forecast rows as it is, and so does the secondary logger for every response.
C13_EveningCutoff ==
  is_after_6pm_local(now)
    => /\ \A v \in Temps :
            Cardinality(ForecastRowsFor(log_forecast(primary, now, v).rows, today_nyc(now)))
              = Cardinality(ForecastRowsFor(primary.rows, today_nyc(now)))
       /\ \A j \in AccuFeed :
            Cardinality(ForecastRowsFor(accu_main(accu, now, j), today_nyc(now)))
              = Cardinality(ForecastRowsFor(accu, today_nyc(now)))

\* C14: at an instant whose local hour is in [0,4) the secondary-feed logger
\* appends nothing to accuweather_log.csv, whatever the response.
C14_FreezeWindow ==
  \A m \in {0, 239} :
     hour([day |-> now.day, min |-> m]) < 4
       => \A j \in AccuFeed :
            accu_main(accu, [day |-> now.day, min |-> m], j) = accu

\* the files as the bias functions receive them from _read_all_rows
AllRows == read_all_rows(primary, accu).rows

\* the Forecast rows for d issued at or before the instant of the high
\* (day d at high_time); all of them when high_time does not parse
IssuedByHigh(rows, d, act) ==
  LET h == minutes_from_hhmm_ampm(act.ht)
  IN SelectSeq(rows, LAMBDA x :
       /\ IsForecastFor(x, d)
       /\ x.ph # NoVal
       /\ (h = NoVal \/ (x.ft # NoVal /\ x.ft <= d * MinutesPerDay + h)))

ExampleRows ==
  <<ForecastRow([day |-> 1, min |-> 9 * 60], 1, 30, NoVal, ""),
    ForecastRow([day |-> 1, min |-> 11 * 60], 1, 32, NoVal, ""),
    ForecastRow([day |-> 1, min |-> 15 * 60], 1, 35, NoVal, ""),
    ActualRow(1 * MinutesPerDay + 18 * 60, 1, 33, <<1, 45, "PM">>)>>

\* C15: for every date with an Actual, the forecasts that enter the daily bias
\* are exactly the Forecast rows for the date issued at or before the high
\* time (all of them when the high time does not parse), the daily bias is
\* actual_high minus their mean, and the example of the claim gives 2.
C15_PreHighSet ==
  /\ \A d \in Dates :
       LET rs == RowsOfDate(AllRows, d)
           a == FirstActual(rs)
       IN a # 0
            => LET vals == PhOf(IssuedByHigh(rs, d, rs[a]))
               IN /\ fc_vals(rs, rs[a]) = vals
                  /\ vals # <<>>
                       => LET b == DailyBias(rs)
                          IN b[1] * Len(vals) = (rs[a].ah * Len(vals) - SumSeq(vals)) * b[2]
  /\ DailyBias(ExampleRows) = Frac(2 * 2, 2)

\* daily bias of date d as defined in the claims: actual_high minus the mean
\* of the forecasts issued by the high, None without an Actual or a forecast
BiasOfDate(rows, d) ==
  LET rs == RowsOfDate(rows, d)
      a == FirstActual(rs)
  IN IF a = 0 THEN None
     ELSE LET vals == PhOf(IssuedByHigh(rs, d, rs[a]))
          IN IF vals = <<>> THEN None
             ELSE Frac(rs[a].ah * Len(vals) - SumSeq(vals), Len(vals))

RECURSIVE SumBiasOfDates(_, _)
SumBiasOfDates(rows, ds) ==
  IF ds = {} THEN Frac(0, 1)
  ELSE LET d == CHOOSE x \in ds : TRUE
       IN FracAdd(BiasOfDate(rows, d), SumBiasOfDates(rows, ds \ {d}))

\* C16: for every excluded date X ('' excludes none) the function returns
\* the arithmetic mean of the daily biases of exactly the dates other than X
\* that have an Actual and a non-empty pre-high forecast set, and None when
\* there is no such date.
C16_AvgBiasExcluding ==
  \A X \in Dates \cup {NoVal} :
     LET got == compute_avg_bias_excluding(AllRows, X)
         Q == {d \in DatesOf(AllRows) \ {X} : ~IsNone(BiasOfDate(AllRows, d))}
         s == SumBiasOfDates(AllRows, Q)
     IN IF Q = {} THEN IsNone(got)
        ELSE /\ ~IsNone(got)
             /\ got[1] * s[2] * Cardinality(Q) = s[1] * got[2]

\* C17: when next-day capture appends a Forecast row for tomorrow T and the
\* average bias over all completed days is defined, the row carries
\* mean(forecasts recorded for T, the new one included) + that average bias,
\* printed with one decimal.
C17_LiveEstimate ==
  \A v \in Temps :
     LET T == today_nyc(now) + 1
         P1 == log_forecast_for_tomorrow(primary, accu, now, v)
         avg == compute_avg_bias_excluding(AllRows, NoVal)
         vals == Append(PhOf(SelectSeq(AllRows, LAMBDA r : IsForecastFor(r, T) /\ r.ph # NoVal)), v)
     IN (P1 # primary /\ ~IsNone(avg))
          => P1.rows[Len(P1.rows)].bcp = Fmt1(FracAdd(MeanOf(vals), avg))

\* the dates that contribute a daily bias (an Actual and a non-empty pre-high
\* set as the bias functions compute it)
CompletedDays(rows) ==
  {d \in DatesOf(rows) : ~IsNone(DailyBias(RowsOfDate(rows, d)))}

\* P1 carries no bias_corrected_prediction that P did not carry
NoNewBcp(P, P1) ==
  \A i \in 1..Len(P1.rows) :
     P1.rows[i].bcp # NoVal => (i <= Len(P.rows) /\ P.rows[i].bcp = P1.rows[i].bcp)

\* same-day prediction for d: no completed day other than d, or no pre-high
\* forecast mean for d
Insufficient(rows, d) ==
  \/ CompletedDays(rows) \ {d} = {}
  \/ IsNone(compute_today_pre_high_mean(rows, d))

FreezeSkipsWrite ==
  Evening
    => \A pair \in Bulletins :
         Insufficient(read_all_rows(provisional_append(primary, now, pair), accu).rows,
                      today_nyc(now))
           => NoNewBcp(primary, log_actual_today_if_after_6pm_local(primary, accu, now, pair))

LegacySkipsWrite ==
  Insufficient(AllRows, today_nyc(now))
    => NoNewBcp(primary, write_today_bcp_snapshot_if_after_6pm(primary, accu, now))

NextDaySkipsWrite ==
  \A v \in Temps :
     CompletedDays(AllRows) = {}
       => NoNewBcp(primary, log_forecast_for_tomorrow(primary, accu, now, v))

\* C18: when the average bias a prediction needs is unknown or the target
\* date has no pre-high forecast mean, the freeze of provisional capture, the
\* legacy snapshot and next-day capture write no bias_corrected_prediction:
\* every value in the file they leave was there before.
C18_InsufficientData ==
  FreezeSkipsWrite /\ LegacySkipsWrite /\ NextDaySkipsWrite

\* C19: the header upgrade, as the operations run it on what _read_all_rows
\* returned, turns a file whose header lacks bias_corrected_prediction into
\* one with the original header followed by that field, with every row kept
\* and blank in the new field; on a file that has the field it changes
\* nothing.
C19_SchemaUpgrade ==
  LET ra == read_all_rows(primary, accu)
      up == upgrade_header_to_include_bcp(primary, ra.rows, ra.fns)
  IN IF Has(primary.fns, BCP_FIELD) THEN up.file = primary
     ELSE /\ up.file.fns = Append(primary.fns, BCP_FIELD)
          /\ Len(up.file.rows) = Len(primary.rows)
          /\ \A i \in 1..Len(primary.rows) :
                up.file.rows[i] = [primary.rows[i] EXCEPT !.bcp = NoVal]

\* C20: a forecast step of run_all_once that raises is passed over and every
\* later step still runs, in order, on the file as it then is: the run leaves
\* what the other steps alone would have left.
C20_StepIsolation ==
  \A pair \in RunSections :
     LET b == BulletinAt(now, pair)
         Rest(P) ==
           write_today_bcp_snapshot_if_after_6pm(
             upsert_yesterday_actual_if_morning_local(
               log_actual_today_if_after_6pm_local(P, accu, now, b[1]), accu, now, b[2]),
             accu, now)
     IN /\ run_all_once(primary, accu, now, FetchError, FetchError, b) = Rest(primary)
        /\ \A v \in Temps :
             /\ run_all_once(primary, accu, now, FetchError, v, b)
                  = Rest(log_forecast_for_tomorrow(primary, accu, now, v))
             /\ run_all_once(primary, accu, now, v, FetchError, b)
                  = Rest(log_forecast(primary, now, v))

\* an evening run whose first step raised has acted: tomorrow's forecast and
\* today's Actual carry the stamp of this instant, and the log holds no
\* Forecast row for today (a request that returns always logs the first one)
C20_Witness ==
  /\ Evening
  /\ \E i \in ForecastRowsFor(primary.rows, today_nyc(now) + 1) : primary.rows[i].ts = stamp(now)
  /\ \E i \in ActualRowsFor(primary, today_nyc(now)) : primary.rows[i].ts = stamp(now)
  /\ ForecastRowsFor(primary.rows, today_nyc(now)) = {}

\* the primary file without the rows the secondary feed wrote
PrimaryOnly(P) ==
  [fns |-> P.fns, rows |-> SelectSeq(P.rows, LAMBDA r : r.src # "AccuWeather")]

\* accuweather_log.csv without rows of any other source
SecondaryOnly(A) == SelectSeq(A, LAMBDA r : r.src = "AccuWeather")

\* C21: a primary capture (today, tomorrow) appends a row exactly when it
\* would on the primary file stripped of the secondary feed's rows, and the
\* secondary logger appends for a response exactly the rows it would on its
\* file stripped of the rows of other sources: rows of the other source never
\* change a de-duplication decision.
C21_PerSourceDedup ==
  /\ \A v \in Temps :
       /\ (log_forecast(primary, now, v) # primary)
            <=> (log_forecast(PrimaryOnly(primary), now, v) # PrimaryOnly(primary))
       /\ (Len(log_forecast_for_tomorrow(primary, accu, now, v).rows) > Len(primary.rows))
            <=> (Len(log_forecast_for_tomorrow(PrimaryOnly(primary), accu, now, v).rows)
                   > Len(PrimaryOnly(primary).rows))
  /\ \A j \in AccuFeed :
       rows_for_today_and_tomorrow(accu, now, j)
         = rows_for_today_and_tomorrow(SecondaryOnly(accu), now, j)

\* values the secondary feed can return, one of them never recorded
AccuValues == AccuTemps \cup {36}

LastAccuPh(A, d) ==
  LET S == {i \in 1..Len(A) : IsForecastFor(A[i], d) /\ A[i].src = "AccuWeather"}
  IN IF S = {} THEN NoVal ELSE A[CHOOSE i \in S : \A k \in S : k <= i].ph

\* C22: for every response the secondary logger appends a Forecast row for
\* tomorrow exactly when the value differs from the last secondary-feed
\* forecast recorded for tomorrow, and one for today exactly when the value
\* differs from the last one recorded for today unless today is frozen (18:00
\* or later, or an actual is logged); every row it appends is the row the
\* primary capture would write, tagged "AccuWeather".
C22_SamePolicy ==
  \A v0 \in AccuValues, v1 \in AccuValues :
     LET new == rows_for_today_and_tomorrow(accu, now, <<v0, v1>>)
         D == today_nyc(now)
         frozen == is_after_6pm_local(now) \/ actual_already_logged(accu, D)
         val(d) == IF d = D THEN v0 ELSE v1
     IN /\ (\E i \in 1..Len(new) : new[i].td = D + 1) <=> (LastAccuPh(accu, D + 1) # v1)
        /\ ~frozen => ((\E i \in 1..Len(new) : new[i].td = D) <=> (LastAccuPh(accu, D) # v0))
        /\ frozen => ~(\E i \in 1..Len(new) : new[i].td = D)
        /\ \A i \in 1..Len(new) :
             new[i] = [ForecastRow(now, new[i].td, val(new[i].td), NoVal, "")
                         EXCEPT !.src = "AccuWeather"]

\* what identifies a row: kind, target_date and source, and for a Forecast
\* row also forecast_time and predicted_high
RowIdentity(r) ==
  IF r.kind = "forecast" THEN <<r.kind, r.td, r.src, r.ft, r.ph>>
  ELSE <<r.kind, r.td, r.src, NoVal, NoVal>>

\* C23: no step deletes or moves a row of the primary log: every row of the
\* file is, after the step, at the same position with the same kind,
\* target_date and source (and forecast_time and predicted_high for a
\* Forecast row).
C23_NeverDeleted ==
  [][\A i \in 1..Len(primary.rows) :
       /\ i <= Len(primary'.rows)
       /\ RowIdentity(primary'.rows[i]) = RowIdentity(primary.rows[i])]_vars

\* finalize has replaced an Actual row in place (a later row of the primary
\* feed carries an earlier timestamp) in a file that also holds a row with a
\* bias_corrected_prediction
C23_Witness ==
  /\ \E i, j \in 1..Len(primary.rows) :
        /\ i < j
        /\ primary.rows[i].kind = "actual"
        /\ primary.rows[j].src = ""
        /\ primary.rows[j].ts < primary.rows[i].ts
  /\ \E k \in 1..Len(primary.rows) : primary.rows[k].bcp # NoVal

SectionNames == {"TODAY", "YESTERDAY"}

IsKeywordLine(l) ==
  startswith(line_up(l), KW_TODAY) \/ startswith(line_up(l), KW_YESTERDAY)

\* the section line k of the text belongs to: the keyword of the nearest
\* keyword line above it, "" when there is none
SectionOf(text, k) ==
  LET K == {j \in 1..(k - 1) : IsKeywordLine(text[j])}
  IN IF K = {} THEN ""
     ELSE LET j == CHOOSE x \in K : \A y \in K : y <= x
          IN IF startswith(line_up(text[j]), KW_TODAY) THEN "TODAY" ELSE "YESTERDAY"

\* the lines of a section that give a (temp, time) pair
MatchingLines(text, s) ==
  {k \in 1..Len(text) :
     /\ ~IsKeywordLine(text[k])
     /\ SectionOf(text, k) = s
     /\ maximum_line(line_up(text[k])).pair # NoPair}

\* C24: the pair _parse_cli_sections returns for a section is the pair of the
\* first matching MAXIMUM line among the lines whose nearest keyword line
\* above is that section's (None when there is no such line): later matching
\* lines of the section, also after the keyword appears again, do not
\* replace it, and lines above every keyword line give nothing.
C24_FirstMatchWins ==
  cli_pc = "parsed"
    => \A s \in SectionNames :
         LET S == MatchingLines(cli_body, s)
         IN parsed[s] = IF S = {} THEN NoPair
                        ELSE maximum_line(line_up(cli_body[CHOOSE k \in S : \A j \in S : k <= j])).pair

\* the parser has returned on a text whose TODAY section holds two matching
\* lines with different temperatures, the keyword line repeated between them
C24_Witness ==
  /\ cli_pc = "parsed"
  /\ Len(cli_body) = 4
  /\ IsKeywordLine(cli_body[1]) /\ IsKeywordLine(cli_body[3])
  /\ SectionOf(cli_body, 2) = "TODAY" /\ SectionOf(cli_body, 4) = "TODAY"
  /\ parsed["TODAY"] = maximum_line(line_up(cli_body[2])).pair
  /\ maximum_line(line_up(cli_body[4])).pair \notin {NoPair, parsed["TODAY"]}

CompactTokens ==
  {W_145, <<"0", "1", "5", "4">>, <<"1", "2", "2", "6">>, <<"0", "0", "0">>,
   <<"0", "0", "0", "5">>, <<"9", "5", "9">>, <<"1", "0", "0", "0">>, <<"2", "3", "5", "9">>}
ColonTokens ==
  {<<"1", ":", "4", "5">>, <<"1", "2", ":", "2", "6">>, <<"0", ":", "0", "5">>,
   <<"0", "1", ":", "4", "5">>, <<"0", "0", ":", "3", "0">>, <<"9", ":", "5", "9">>}
Markers == {<<>>, AM, PM}

Suffix(ap) == IF ap = <<>> THEN <<>> ELSE <<" ">> \o ap

\* a 3-4 digit token read as text: left-padded to 4 digits, hour = first two
\* digits less one leading zero, minute = last two digits
CompactAsText(raw) ==
  LET d == IF Len(raw) = 3 THEN <<"0">> \o raw ELSE raw
  IN (IF d[1] = "0" THEN <<d[2]>> ELSE <<d[1], d[2]>>) \o <<":", d[3], d[4]>>

\* C25: _normalize_cli_time turns a 3-4 digit token into H:MM (left-padded
\* to 4 digits, one leading zero of the hour dropped) followed by the AM/PM
\* marker if there is one: '145' PM gives '1:45 PM', '0154' gives '1:54',
\* '1226' gives '12:26'; a token in H:MM form passes through (a zero-padded
\* hour loses its padding); and whenever the first matching line of the TODAY
\* section is 'MAXIMUM 75 145 PM' the parser returns ('75', '1:45 PM').
\* what _normalize_cli_time returns for the tokens; it does not depend on
\* the state
NormalizesTokens ==
  /\ \A raw \in CompactTokens, ap \in Markers :
       normalize_cli_time(raw, ap) = [out |-> CompactAsText(raw) \o Suffix(ap), exc |-> ""]
  /\ normalize_cli_time(W_145, PM).out = <<"1", ":", "4", "5", " ", "P", "M">>
  /\ normalize_cli_time(<<"0", "1", "5", "4">>, <<>>).out = <<"1", ":", "5", "4">>
  /\ normalize_cli_time(<<"1", "2", "2", "6">>, <<>>).out = <<"1", "2", ":", "2", "6">>
  /\ \A raw \in ColonTokens, ap \in Markers :
       normalize_cli_time(raw, ap).out
         = (IF Len(raw) = 5 /\ raw[1] = "0" THEN Tail(raw) ELSE raw) \o Suffix(ap)

C25_CompactTime ==
  /\ cli_body = <<>> => NormalizesTokens
  /\ normalized.called /\ normalized.raw \in CompactTokens
       => normalized.out = CompactAsText(normalized.raw) \o Suffix(normalized.ampm)
  /\ cli_pc = "parsed"
       => LET S == MatchingLines(cli_body, "TODAY")
          IN (S # {} /\ line_up(cli_body[CHOOSE k \in S : \A j \in S : k <= j])
                          = <<KW_MAXIMUM, W_75, W_145, PM>>)
               => parsed["TODAY"] = <<W_75, <<"1", ":", "4", "5", " ", "P", "M">>>>

\* the parser has returned ('75', '1:45 PM') for TODAY and a pair read from a
\* 4-digit token with a leading zero for YESTERDAY
C25_Witness ==
  /\ cli_pc = "parsed"
  /\ parsed["TODAY"] = <<W_75, <<"1", ":", "4", "5", " ", "P", "M">>>>
  /\ parsed["YESTERDAY"] = <<<<"7", "1">>, <<"1", ":", "5", "4", " ", "A", "M">>>>

\* tokens whose hour part is not the text of an integer
BadHourTokens ==
  {<<"A", "B", "4", "5">>, <<":", "3", "0">>, <<"X", ":", "3", "0">>, <<"1", "A", "3", "0">>}
OtherTokens ==
  {<<>>, <<"7">>, <<"-", "5">>, <<"+", "5", "3", "0">>, <<"1", "2", "3", "4", "5">>}
RawTokens == CompactTokens \cup ColonTokens \cup BadHourTokens \cup OtherTokens \cup NormInputs

\* a line with the word MAXIMUM followed by an all-digit temperature and a
\* time token of one of the two accepted forms
WellFormedMaximum(parts) ==
  \E i \in 1..Len(parts) :
     /\ parts[i] = KW_MAXIMUM
     /\ \A j \in 1..(i - 1) : parts[j] # KW_MAXIMUM
     /\ i + 2 <= Len(parts)
     /\ isdigit(parts[i + 1])
     /\ TIME_TOKEN(parts[i + 2])

SectionLines(text, s) ==
  {k \in 1..Len(text) : ~IsKeywordLine(text[k]) /\ SectionOf(text, k) = s}

AllColumns == {ACCU_HEADER[k] : k \in 1..Len(ACCU_HEADER)}

\* the cell of a row under a column name
Cell(row, f) ==
  CASE f = "timestamp" -> row.ts
    [] f = "target_date" -> row.td
    [] f = "forecast_or_actual" -> row.kind
    [] f = "forecast_time" -> row.ft
    [] f = "predicted_high" -> row.ph
    [] f = "forecast_detail" -> row.detail
    [] f = "cli_date" -> row.cd
    [] f = "actual_high" -> row.ah
    [] f = "high_time" -> row.ht
    [] f = BCP_FIELD -> row.bcp
    [] f = "source" -> row.src

\* the empty string in the encoding of the column
Blank(f) ==
  IF f \in {"forecast_or_actual", "forecast_detail", "source"} THEN ""
  ELSE IF f = "high_time" THEN NoTime
  ELSE NoVal

\* C27: a step of _append_row leaves the header as it is (the canonical
\* header when the file was missing), leaves every existing row as it is,
\* and adds one row at the end that holds, under every column of the header,
\* the value the given row has for it, and nothing of the keys that are not
\* in the header.
C27_AppendFrame ==
  [][primary' # primary
       => /\ primary'.fns = (IF primary = Absent THEN BASE_HEADER \o <<BCP_FIELD>>
                              ELSE primary.fns)
          /\ Len(primary'.rows) = Len(primary.rows) + 1
          /\ \A i \in 1..Len(primary.rows) : primary'.rows[i] = primary.rows[i]
          /\ \E row \in AppendInputs(now) :
               \A f \in AllColumns :
                  Cell(primary'.rows[Len(primary'.rows)], f)
                    = IF Has(primary'.fns, f) THEN Cell(row, f) ELSE Blank(f)]_vars

\* a file without the bias and source columns has received two rows, the
\* last one at this instant
C27_Witness ==
  /\ primary.fns = BASE_HEADER
  /\ Len(primary.rows) >= 2
  /\ primary.rows[Len(primary.rows)].ts = stamp(now)

\* C28: for every month m and excluded date X ('' excludes none) the average
\* bias the prediction writer asks for, _compute_avg_bias_excluding(rows, X,
\* target_month=m), is the mean of the daily biases of exactly the completed
\* days other than X whose date falls in month m, None when there is none.
C28_SeasonalBias ==
  \A T \in Dates, X \in Dates \cup {NoVal} :
     LET got == seasonal_avg_bias(AllRows, X, T)
         Q == {d \in CompletedDays(AllRows) \ {X} : month_of(d) = month_of(T)}
         s == SumFracs(AllRows, Q)
     IN /\ got.exc = ""
        /\ IF Q = {} THEN IsNone(got.val)
           ELSE /\ ~IsNone(got.val)
                /\ got.val[1] * s[2] * Cardinality(Q) = s[1] * got.val[2]

\* C29: in run_once.py and in run_smart.py under smart_all, when the forecast
\* request of log_forecast raises, next-day capture, provisional capture and
\* finalize-yesterday (and, in run_smart.py, the snapshot) still run: the
\* invocation leaves what those steps leave.
C29_EntryIsolation ==
  \A pair \in RunSections, v1 \in Temps :
     LET b == BulletinAt(now, pair)
         P2 == log_forecast_for_tomorrow(primary, accu, now, v1)
     IN /\ run_once(primary, accu, now, FetchError, v1, b)
             = upsert_yesterday_actual_if_morning_local(
                 log_actual_today_if_after_6pm_local(P2, accu, now, b[1]), accu, now, b[2])
        /\ run_smart(primary, accu, now, "smart_all", FetchError, v1, b)
             = steps_after_forecasts(P2, accu, now, b)

\* C30: on a file whose header lacks bias_corrected_prediction, a next-day
\* capture that computed a value, and the freeze of provisional capture when
\* it has a value to write, leave a file whose header has the column, with
\* the value on the intended row and every row that was there before blank
\* in the column.
C30_LazyUpgrade ==
  ~Has(primary.fns, BCP_FIELD)
    => /\ \A v \in Temps :
            LET P1 == log_forecast_for_tomorrow(primary, accu, now, v)
                avg == compute_avg_bias_excluding(AllRows, NoVal)
            IN (P1 # primary /\ ~IsNone(avg))
                 => /\ Has(P1.fns, BCP_FIELD)
                    /\ P1.rows[Len(P1.rows)].bcp = Fmt1(FracAdd(Frac(v, 1), avg))
                    /\ \A i \in 1..Len(primary.rows) : P1.rows[i].bcp = NoVal
       /\ Evening
            => \A pair \in Bulletins :
                 LET rows == read_all_rows(provisional_append(primary, now, pair), accu).rows
                     latest == latest_today_forecast(rows, today_nyc(now))
                     expected == ExpectedSnapshot(rows, today_nyc(now))
                     P1 == log_actual_today_if_after_6pm_local(primary, accu, now, pair)
                 IN (latest # 0 /\ expected # NoVal)
                      => /\ Has(P1.fns, BCP_FIELD)
                         /\ P1.rows[latest].bcp = expected
                         /\ \A i \in 1..Len(primary.rows) :
                              i # latest => P1.rows[i].bcp = NoVal


\* C31: a Forecast row for date D issued on an earlier calendar day belongs to
\* D's pre-high forecast set whatever its clock time: for every date with an
\* Actual, each numeric Forecast row for the date whose forecast_time lies on
\* an earlier day is kept by the membership test of the bias functions.
C31_EarlierDayInPreHigh ==
  \A d \in Dates :
     LET rs == RowsOfDate(AllRows, d)
         a == FirstActual(rs)
     IN a # 0
          => LET high_min == IF rs[a].ht # NoTime
                             THEN minutes_from_hhmm_ampm(rs[a].ht) ELSE NoVal
             IN \A i \in 1..Len(rs) :
                  ( /\ IsForecastFor(rs[i], d)
                    /\ rs[i].ph # NoVal
                    /\ rs[i].ft # NoVal
                    /\ iso_date_of_stamp(rs[i].ft) < d )
                    => PreHighKept(rs[i], high_min)


\* C32: the live estimate never occupies the frozen-snapshot slot: when
\* provisional capture records the first Actual for today, the most recently
\* timestamped Forecast row for today was issued on an earlier day and already
\* carries a live bias_corrected_prediction, and the data is sufficient, then
\* after the freeze that row holds mean(pre-high forecasts of today) + average
\* bias excluding today.
C32_FrozenReplacesLive ==
  \A pair \in Bulletins :
     (Evening /\ ~actual_already(primary, today_nyc(now)))
       => LET d == today_nyc(now)
              rows == read_all_rows(provisional_append(primary, now, pair), accu).rows
              latest == latest_today_forecast(rows, d)
          IN ( /\ latest # 0
               /\ rows[latest].bcp # NoVal
               /\ iso_date_of_stamp(rows[latest].ft) < d
               /\ ExpectedSnapshot(rows, d) # NoVal )
               => log_actual_today_if_after_6pm_local(primary, accu, now, pair).rows[latest].bcp
                    = ExpectedSnapshot(rows, d)


\* bulletins whose TODAY and YESTERDAY sections have no well-formed MAXIMUM line
UnparsedBulletins ==
  {<<>>,
   <<<<KW_TODAY>>, <<KW_MAXIMUM, <<"M", "M">>, W_145, PM>>>>,
   <<<<KW_YESTERDAY>>, <<KW_MAXIMUM, W_75, <<"1", "2">>, PM>>>>}

\* C33: a parse failure means 'not yet available': with a missing bulletin or
\* a section that parses to None, provisional capture after 6 pm and
\* finalize-yesterday before noon leave the log exactly as it was, and a
\* later post-6pm invocation whose TODAY section parses still records the
\* Actual of today.
C33_ParseFailureIsNotYet ==
  /\ \A text \in UnparsedBulletins :
       LET sections == parse_cli_sections(text)
       IN /\ sections.exc = ""
          /\ \A m \in GateMinutes :
               LET t == [day |-> now.day, min |-> m]
               IN /\ log_actual_today_if_after_6pm_local(primary, accu, t, sections.TODAY) = primary
                  /\ upsert_yesterday_actual_if_morning_local(primary, accu, t, sections.YESTERDAY)
                       = primary
  /\ Evening
       => \A pair \in Bulletins :
            LET P0 == log_actual_today_if_after_6pm_local(primary, accu, now, NoPair)
                P1 == log_actual_today_if_after_6pm_local(P0, accu, now, pair)
                d == today_nyc(now)
            IN /\ ActualRowsFor(P1, d) # {}
               /\ ActualRowsFor(primary, d) = {}
                    => \E i \in ActualRowsFor(P1, d) :
                         P1.rows[i].ah = pair[1] /\ P1.rows[i].ht = pair[2]

\* after 6 pm, with forecasts in the log and no Actual for today yet: a failed
\* parse has nothing to show, a parsed section adds the Actual
C33_Witness ==
  /\ Evening
  /\ primary.rows # <<>>
  /\ ActualRowsFor(primary, today_nyc(now)) = {}
  /\ log_actual_today_if_after_6pm_local(primary, accu, now, NoPair) = primary
  /\ \E pair \in Bulletins :
       log_actual_today_if_after_6pm_local(primary, accu, now, pair) # primary


\* the lines of section s that hold the word MAXIMUM
MaximumTokenLines(text, s) ==
  {k \in SectionLines(text, s) :
     \E i \in 1..Len(line_up(text[k])) : line_up(text[k])[i] = KW_MAXIMUM}

\* C34: within a section the first line holding the token MAXIMUM alone
\* determines the result: when its temperature or its time token is
\* malformed, the section's result is None, whatever the later lines of the
\* section are.
C34_FirstMaximumLineDecides ==
  cli_pc = "parsed"
    => \A s \in SectionNames :
         LET T == MaximumTokenLines(cli_body, s)
         IN T # {}
              => LET first == CHOOSE k \in T : \A j \in T : k <= j
                 IN ~WellFormedMaximum(line_up(cli_body[first])) => parsed[s] = NoPair


\* row r1 is row r0 with its blank bias_corrected_prediction filled in
BcpFilledIn(r0, r1) ==
  /\ r0.bcp = NoVal
  /\ r1.bcp # NoVal
  /\ r1 = [r0 EXCEPT !.bcp = r1.bcp]

\* C35: forecasts are frozen once written: across every step each Forecast
\* row of either file keeps its timestamp, target_date, forecast_time,
\* predicted_high, detail and source; the only change it can undergo is its
\* bias_corrected_prediction going from blank to a value, and a step of the
\* upsert path changes no Forecast row at all.
C35_ForecastsFrozen ==
  [][/\ \A i \in 1..Len(primary.rows) :
          primary.rows[i].kind = "forecast"
            => /\ i <= Len(primary'.rows)
               /\ \/ primary'.rows[i] = primary.rows[i]
                  \/ BcpFilledIn(primary.rows[i], primary'.rows[i]) /\ ~UpsertYesterday
     /\ \A i \in 1..Len(accu) : i <= Len(accu') /\ accu'[i] = accu[i]]_vars

\* a Forecast row carries a bias_corrected_prediction and an Actual row above
\* it has been replaced in place by finalize-yesterday (stamped on a later
\* day than its date)
C35_Witness ==
  \E i, j \in 1..Len(primary.rows) :
     /\ j < i
     /\ primary.rows[i].kind = "forecast"
     /\ primary.rows[i].bcp # NoVal
     /\ primary.rows[j].kind = "actual"
     /\ iso_date_of_stamp(primary.rows[j].ts) > primary.rows[j].cd


\* today's data suffices for the freeze: the average bias excluding d and the
\* pre-high mean of d both exist
Sufficient(P, A, d) == ExpectedSnapshot(read_all_rows(P, A).rows, d) # NoVal

\* the most recently timestamped Forecast row for d carries a value
SlotFilled(P, d) ==
  LET latest == latest_today_forecast(P.rows, d)
  IN latest # 0 /\ P.rows[latest].bcp # NoVal

\* what every post-6pm invocation with a parseable TODAY section leaves
AfterCapture(pair) ==
  LET d == today_nyc(now)
      P0 == provisional_append(primary, now, pair)
      P1 == log_actual_today_if_after_6pm_local(primary, accu, now, pair)
  IN /\ Len(P1.rows) >= Len(P0.rows)
     /\ \A i \in 1..Len(P0.rows) : P0.rows[i].kind = "actual" => P1.rows[i] = P0.rows[i]
     /\ ActualRowsFor(P1, d) # {}
     /\ Sufficient(P0, accu, d) => SlotFilled(P1, d)

AccuRowsFor(F, d) ==
  {i \in 1..Len(F) : F[i].kind = "forecast" /\ F[i].td = d /\ F[i].src = "AccuWeather"}

\* C37: after any sequence of runs of the secondary logger,
\* accuweather_log.csv holds at most one AccuWeather Forecast row per
\* target_date.
C37_OneRowPerDate ==
  \A d \in Dates : Cardinality(AccuRowsFor(accu, d)) <= 1


\* C38: every Actual row that provisional capture appends carries, as
\* target_date and cli_date, the calendar date of the instant at which its
\* hour >= 18 gate was evaluated (the instant of its timestamp), also when
\* midnight passes before today's date is read again; and no Actual row is
\* created for a date whose evening has not been reached.
C38_DateOfGateInstant ==
  [][\A i \in 1..Len(primary'.rows) :
       (i > Len(primary.rows) /\ primary'.rows[i].kind = "actual")
         => /\ primary'.rows[i].cd * MinutesPerDay + EveningHour * 60 <= stamp(now)
            /\ LogActualReread
                 => /\ primary'.rows[i].td = today_nyc(now)
                    /\ primary'.rows[i].cd = today_nyc(now)
                    /\ iso_date_of_stamp(primary'.rows[i].ts) = primary'.rows[i].cd]_vars


\* C39 as stated: at most one Actual row per date, also when two invocations
\* of provisional capture overlap so that both scan the file before either
\* appends.
C39_OneActualUnderOverlap ==
  \A d \in Dates : Cardinality(ActualRowsFor(primary, d)) <= 1

\* invocation p scanned the file before another invocation appended the
\* Actual for the same date: its scan result no longer describes the file
StaleScan(p, d) ==
  /\ capture[p].pc = "checked"
  /\ capture[p].cli_date = d
  /\ ~capture[p].seen
  /\ actual_already(primary, d)

\* C39 amended: at most one Actual row per date holds for invocations that do
\* not overlap; a step adds a further Actual row for a date that has one only
\* when it is the append of an invocation whose scan came before another
\* invocation's append for that date.
C39_SecondActualOnlyByOverlap ==
  [][\A d \in Dates :
       ( /\ ActualRowsFor(primary, d) # {}
         /\ Cardinality(ActualRowsFor(primary', d)) > Cardinality(ActualRowsFor(primary, d)) )
         => \E p \in Procs : StaleScan(p, d) /\ capture'[p].pc = "idle"]_vars

\* both invocations have returned and the log holds two Actual rows for one
\* date, the second appended by the invocation that had scanned too early
C39_Witness ==
  /\ \A p \in Procs : capture[p].pc = "idle"
  /\ \E d \in Dates : Cardinality(ActualRowsFor(primary, d)) = 2

====
